---- MODULE Spec2Model ----
(***************************************************************************)
(* pfif_diff.py: the difference between two PFIF XML files.                *)
(*                                                                         *)
(* Representation.                                                         *)
(*  - A Python string is the sequence of its characters ("p1" is           *)
(*    <<"p", "1">>, '' is <<>>), so that +, [1:], startswith and lower()   *)
(*    are computed as Python computes them.  Tag names, on which the code  *)
(*    only tests equality and membership, stay TLA+ strings.               *)
(*  - A Python value that may be None is None == <<>> or Some(v) == <<v>>. *)
(*  - A dict is a function; dict.get, dict.setdefault and d[k] = v are the *)
(*    operators Get, SetDefault and Put.                                   *)
(*  - An XML element is [tag, text, children], text being None or Some of  *)
(*    a string, children the sequence of its child elements in document    *)
(*    order.  A file is its root element.                                  *)
(***************************************************************************)
EXTENDS Integers, Sequences, FiniteSets, TLC

VARIABLES
  file_a, file_b,           \* the two files handed to pfif_file_diff
  edit,                     \* how the two files were made to differ
  ignore_fields,            \* the arguments of the call
  omit_blank_fields,
  text_is_case_sensitive,
  records_a, records_b,     \* the maps pfif_obj_diff compares
  messages,                 \* pfif_obj_diff(records_a, records_b, ...)
  messages_swapped,         \* pfif_obj_diff(records_b, records_a, ...)
  pc

vars == <<file_a, file_b, edit, ignore_fields, omit_blank_fields,
          text_is_case_sensitive, records_a, records_b, messages,
          messages_swapped, pc>>

----------------------------------------------------------------------------
(* Python values *)

None == <<>>

Some(v) == <<v>>

EmptyStr == <<>>

EmptyDict == [k \in {} |-> None]

\* d.get(k): None when k is not a key of d.
Get(d, k) == IF k \in DOMAIN d THEN Some(d[k]) ELSE None

\* d[k] = v
Put(d, k, v) == [x \in (DOMAIN d) \cup {k} |-> IF x = k THEN v ELSE d[x]]

\* Mutant of SetDefault: a fresh value replaces the one held under k.
SetDefault_fresh(d, k, v) == Put(d, k, v)

\* d.setdefault(k, v) as the dict it leaves behind.
SetDefault(d, k, v) == IF k \in DOMAIN d THEN d ELSE Put(d, k, v)

\* for x in d: the keys in the order the dict yields them, which Python
\* leaves unspecified; one fixed order per key set.
RECURSIVE KeyOrder(_)
KeyOrder(S) ==
  IF S = {} THEN <<>>
  ELSE LET k == CHOOSE x \in S : TRUE IN <<k>> \o KeyOrder(S \ {k})

\* str.lower() on one character.
LowerChar(c) ==
  CASE c = "A" -> "a" [] c = "B" -> "b" [] c = "C" -> "c" [] c = "D" -> "d"
    [] c = "E" -> "e" [] c = "F" -> "f" [] c = "G" -> "g" [] c = "H" -> "h"
    [] c = "I" -> "i" [] c = "J" -> "j" [] c = "K" -> "k" [] c = "L" -> "l"
    [] c = "M" -> "m" [] c = "N" -> "n" [] c = "O" -> "o" [] c = "P" -> "p"
    [] c = "Q" -> "q" [] c = "R" -> "r" [] c = "S" -> "s" [] c = "T" -> "t"
    [] c = "U" -> "u" [] c = "V" -> "v" [] c = "W" -> "w" [] c = "X" -> "x"
    [] c = "Y" -> "y" [] c = "Z" -> "z" [] OTHER -> c

\* str.lower()
Lower(s) == [i \in 1..Len(s) |-> LowerChar(s[i])]

----------------------------------------------------------------------------
(* The XML tree, as utils.PfifXmlTree hands it to pfif_diff.py *)

\* utils.extract_tag(child.tag): the tag without its namespace; elements are
\* kept under their bare tags, which tree.add_namespace_to_tag matches.
extract_tag(tag) == tag

\* parent.find(tag): the first child of parent with that tag, or None.
find(parent, tag) ==
  LET hits == SelectSeq(parent.children, LAMBDA c : extract_tag(c.tag) = tag)
  IN  IF hits = <<>> THEN None ELSE Some(hits[1])

\* parent.findall(tag): the children of parent with that tag, in order.
findall(parent, tag) ==
  SelectSeq(parent.children, LAMBDA c : extract_tag(c.tag) = tag)

\* tree.get_field_text(parent, child_tag): the text of the first child with
\* that tag; None when there is no such child, and when the child holds no
\* text (the text of an element without text is None, line 112).
get_field_text(parent, child_tag) ==
  LET child == find(parent, child_tag)
  IN  IF child = None THEN None ELSE child[1].text

\* tree.get_all_persons(): the person elements under the root.
get_all_persons(tree) == findall(tree, "person")

\* tree.get_top_level_notes(): the note elements under the root.
get_top_level_notes(tree) == findall(tree, "note")

----------------------------------------------------------------------------
(* Record keys *)

PERSON_PREFIX == <<"p">>

NOTE_PREFIX == <<"n">>

record_id_to_key(record_id, is_person) ==
  IF is_person THEN PERSON_PREFIX \o record_id ELSE NOTE_PREFIX \o record_id

\* key.startswith(PERSON_PREFIX)
is_key_person(key) ==
  /\ Len(key) >= Len(PERSON_PREFIX)
  /\ SubSeq(key, 1, Len(PERSON_PREFIX)) = PERSON_PREFIX

\* key[1:]
key_to_record_id(key) == SubSeq(key, 2, Len(key))

----------------------------------------------------------------------------
(* objectify_parents *)

\* Mutant of add_child: the test on ignore_fields is missing.
add_child_no_ignore(record_map, child, is_person, ignore, omit_blank) ==
  LET field_name == extract_tag(child.tag)
  IN  IF ~is_person \/ field_name # "note"
      THEN LET field_value ==
                 IF child.text = None \/ child.text[1] = EmptyStr
                 THEN EmptyStr ELSE child.text[1]
           IN  IF field_value # EmptyStr \/ ~omit_blank
               THEN Put(record_map, field_name, field_value)
               ELSE record_map
      ELSE record_map

\* Mutant of add_child: the test on omit_blank_fields is missing.
add_child_keeps_blank(record_map, child, is_person, ignore, omit_blank) ==
  LET field_name == extract_tag(child.tag)
  IN  IF (field_name \notin ignore) /\ (~is_person \/ field_name # "note")
      THEN LET field_value ==
                 IF child.text = None \/ child.text[1] = EmptyStr
                 THEN EmptyStr ELSE child.text[1]
           IN  Put(record_map, field_name, field_value)
      ELSE record_map

\* Lines 107-116, the body of "for child in parent.getchildren()": the
\* record map after one child.
add_child(record_map, child, is_person, ignore, omit_blank) ==
  LET field_name == extract_tag(child.tag)
  IN  IF (field_name \notin ignore) /\ (~is_person \/ field_name # "note")
      THEN LET field_value ==
                 IF child.text = None \/ child.text[1] = EmptyStr
                 THEN EmptyStr ELSE child.text[1]
           IN  IF field_value # EmptyStr \/ ~omit_blank
               THEN Put(record_map, field_name, field_value)
               ELSE record_map
      ELSE record_map

\* Lines 106-116: the loop over the children.
RECURSIVE add_children(_, _, _, _, _)
add_children(record_map, children, is_person, ignore, omit_blank) ==
  IF children = <<>> THEN record_map
  ELSE add_children(
         add_child(record_map, Head(children), is_person, ignore, omit_blank),
         Tail(children), is_person, ignore, omit_blank)

\* Mutant of force_add: the test on ignore_fields is missing.
force_add_always(record_map, is_person, parent_person_record_id, ignore) ==
  IF ~is_person /\ parent_person_record_id # None
  THEN Put(record_map, "person_record_id", parent_person_record_id[1])
  ELSE record_map

\* Mutant of force_add: nothing is added.
force_add_never(record_map, is_person, parent_person_record_id, ignore) ==
  record_map

\* Lines 98-105: setdefault, then the forced person_record_id of a note
\* that is a child of a person.
force_add(record_map, is_person, parent_person_record_id, ignore) ==
  IF ~is_person /\ parent_person_record_id # None
     /\ "person_record_id" \notin ignore
  THEN Put(record_map, "person_record_id", parent_person_record_id[1])
  ELSE record_map

RECURSIVE objectify_parents(_, _, _, _, _, _)

\* Lines 93-122, the body of "for parent in parents": the object map after
\* one parent.  A parent without its record id is reported and skipped.
objectify_parent(parent, is_person, object_map, parent_person_record_id, ignore, omit_blank) ==
  LET record_id_tag ==
        IF is_person THEN "person_record_id" ELSE "note_record_id"
      record_id == get_field_text(parent, record_id_tag)
  IN  IF record_id = None
      THEN object_map
      ELSE
        LET key == record_id_to_key(record_id[1], is_person)
            with_key == SetDefault(object_map, key, EmptyDict)
            record_map ==
              add_children(
                force_add(with_key[key], is_person, parent_person_record_id,
                          ignore),
                parent.children, is_person, ignore, omit_blank)
            \* record_map is the dict held in object_map, changed in place
            stored == Put(with_key, key, record_map)
        IN  IF is_person
            THEN objectify_parents(findall(parent, "note"), FALSE, stored,
                                   record_id, ignore, omit_blank)
            ELSE stored

\* Mutant of objectify_parents: a parent without its record id ends the loop.
objectify_parents_abort(parents, is_person, object_map, parent_person_record_id, ignore, omit_blank) ==
  IF parents = <<>> THEN object_map
  ELSE IF get_field_text(Head(parents),
                         IF is_person THEN "person_record_id"
                         ELSE "note_record_id") = None
  THEN object_map
  ELSE objectify_parents(
         Tail(parents), is_person,
         objectify_parent(Head(parents), is_person, object_map,
                          parent_person_record_id, ignore, omit_blank),
         parent_person_record_id, ignore, omit_blank)

\* Lines 78-122.  parent_person_record_id is None or Some(record id).
objectify_parents(parents, is_person, object_map, parent_person_record_id, ignore, omit_blank) ==
  IF parents = <<>> THEN object_map
  ELSE objectify_parents(
         Tail(parents), is_person,
         objectify_parent(Head(parents), is_person, object_map,
                          parent_person_record_id, ignore, omit_blank),
         parent_person_record_id, ignore, omit_blank)

\* Lines 124-138.  ignore_fields=None becomes [] at line 86-87.
objectify_pfif_xml(file_to_objectify, ignore, omit_blank) ==
  LET tree == file_to_objectify
      persons_done ==
        objectify_parents(get_all_persons(tree), TRUE, EmptyDict, None,
                          ignore, omit_blank)
  IN  objectify_parents(get_top_level_notes(tree), FALSE, persons_done, None,
                        ignore, omit_blank)

----------------------------------------------------------------------------
(* pfif_obj_diff *)

DELETED_RECORD == "DELETED_RECORD"
ADDED_RECORD == "ADDED_RECORD"
DELETED_FIELD == "DELETED_FIELD"
ADDED_FIELD == "ADDED_FIELD"
CHANGED_FIELD == "CHANGED_FIELD"

\* utils.Message(category, extra_data=None, xml_tag=None,
\*               person_record_id=None, note_record_id=None)
Message(category, extra_data, xml_tag, person_record_id, note_record_id) ==
  [category |-> category, extra_data |-> extra_data, xml_tag |-> xml_tag,
   person_record_id |-> person_record_id, note_record_id |-> note_record_id]

\* Lines 140-149.  extra_data and xml_tag are None or Some(value).
make_diff_message(category, record_id, extra_data, xml_tag) ==
  LET is_person == is_key_person(record_id)
      real_record_id == key_to_record_id(record_id)
  IN  IF is_person
      THEN Message(category, extra_data, xml_tag, Some(real_record_id), None)
      ELSE Message(category, extra_data, xml_tag, None, Some(real_record_id))

\* 'A:"' + value_a + '" is now B:"' + value_b + '"'
changed_text(value_a, value_b) ==
  <<"A", ":", "\"">> \o value_a
    \o <<"\"", " ", "i", "s", " ", "n", "o", "w", " ", "B", ":", "\"">>
    \o value_b \o <<"\"">>

\* Mutant of diff_field: only value_a is taken to lower case.
diff_field_lower_a(record, field, field_map_a, field_map_b, case_sensitive) ==
  LET value_b == Get(field_map_b, field)
  IN  IF value_b = None
      THEN <<make_diff_message(DELETED_FIELD, record, None, Some(field))>>
      ELSE
        LET va == IF ~case_sensitive THEN Lower(field_map_a[field])
                  ELSE field_map_a[field]
            vb == value_b[1]
        IN  IF va # vb
            THEN <<make_diff_message(CHANGED_FIELD, record,
                                     Some(changed_text(va, vb)), Some(field))>>
            ELSE <<>>

\* Lines 169-182 for one field of field_map_a: the messages it appends.
diff_field(record, field, field_map_a, field_map_b, case_sensitive) ==
  LET value_b == Get(field_map_b, field)
  IN  IF value_b = None
      THEN <<make_diff_message(DELETED_FIELD, record, None, Some(field))>>
      ELSE
        \* lines 175-177 rebind value_a and value_b to their lower case
        LET va == IF ~case_sensitive THEN Lower(field_map_a[field])
                  ELSE field_map_a[field]
            vb == IF ~case_sensitive THEN Lower(value_b[1]) ELSE value_b[1]
        IN  IF va # vb
            THEN <<make_diff_message(CHANGED_FIELD, record,
                                     Some(changed_text(va, vb)), Some(field))>>
            ELSE <<>>

\* Lines 169-182: the loop over field_map_a.items().
RECURSIVE diff_fields(_, _, _, _, _)
diff_fields(record, fields, field_map_a, field_map_b, case_sensitive) ==
  IF fields = <<>> THEN <<>>
  ELSE diff_field(record, Head(fields), field_map_a, field_map_b,
                  case_sensitive)
       \o diff_fields(record, Tail(fields), field_map_a, field_map_b,
                      case_sensitive)

\* Lines 183-186: the loop over field_map_b.
RECURSIVE added_fields(_, _, _)
added_fields(record, fields, field_map_a) ==
  IF fields = <<>> THEN <<>>
  ELSE (IF Head(fields) \notin DOMAIN field_map_a
        THEN <<make_diff_message(ADDED_FIELD, record, None,
                                 Some(Head(fields)))>>
        ELSE <<>>)
       \o added_fields(record, Tail(fields), field_map_a)

\* Lines 163-186: the loop over records_a.items().
RECURSIVE diff_records(_, _, _, _)
diff_records(records, recs_a, recs_b, case_sensitive) ==
  IF records = <<>> THEN <<>>
  ELSE
    LET record == Head(records)
        field_map_a == recs_a[record]
        field_map_b == Get(recs_b, record)
    IN  (IF field_map_b = None
         THEN <<make_diff_message(DELETED_RECORD, record, None, None)>>
         ELSE diff_fields(record, KeyOrder(DOMAIN field_map_a), field_map_a,
                          field_map_b[1], case_sensitive)
              \o added_fields(record, KeyOrder(DOMAIN field_map_b[1]),
                              field_map_a))
        \o diff_records(Tail(records), recs_a, recs_b, case_sensitive)

\* Mutant of added_records: the test "record not in records_a" is missing.
RECURSIVE added_records_all(_, _)
added_records_all(records, recs_a) ==
  IF records = <<>> THEN <<>>
  ELSE <<make_diff_message(ADDED_RECORD, Head(records), None, None)>>
       \o added_records_all(Tail(records), recs_a)

\* Lines 187-189: the loop over records_b.
RECURSIVE added_records(_, _)
added_records(records, recs_a) ==
  IF records = <<>> THEN <<>>
  ELSE (IF Head(records) \notin DOMAIN recs_a
        THEN <<make_diff_message(ADDED_RECORD, Head(records), None, None)>>
        ELSE <<>>)
       \o added_records(Tail(records), recs_a)

\* Mutant of pfif_obj_diff: the loop over records_b is missing.
pfif_obj_diff_no_added(recs_a, recs_b, case_sensitive) ==
  diff_records(KeyOrder(DOMAIN recs_a), recs_a, recs_b, case_sensitive)

\* Lines 151-190.
pfif_obj_diff(recs_a, recs_b, case_sensitive) ==
  diff_records(KeyOrder(DOMAIN recs_a), recs_a, recs_b, case_sensitive)
  \o added_records(KeyOrder(DOMAIN recs_b), recs_a)

----------------------------------------------------------------------------
(* Input documents *)

Elem(tag, text, children) ==
  [tag |-> tag, text |-> text, children |-> children]

\* The most person and note elements in a generated file.
MaxNodes == 3

\* The same, for the files that are then edited field by field.
MaxEditNodes == 2

\* The most records in a map handed to pfif_obj_diff directly.
MaxRecords == 2

Ids == {<<"1">>, <<"2">>}

Tags == {"person_record_id", "note_record_id", "full_name"}

IgnoreSets == SUBSET Tags

OptField(tag, texts) == {<<>>} \cup {<<Elem(tag, t, <<>>)>> : t \in texts}

SeqsUpTo(S, n) == UNION {[1..k -> S] : k \in 0..n}

\* A note: an optional note_record_id, then an optional person_record_id
\* (blank, or an id).
NoteElems ==
  {Elem("note", None, a \o b) :
     a \in OptField("note_record_id", {Some(i) : i \in Ids}),
     b \in OptField("person_record_id", {None} \cup {Some(i) : i \in Ids})}

\* The fields of a person: an optional person_record_id, then an optional
\* full_name (blank, or a name).
PersonFields ==
  {a \o b :
     a \in OptField("person_record_id", {Some(i) : i \in Ids}),
     b \in OptField("full_name", {None, Some(<<"J">>)})}

\* The sequences of persons, each with its notes after its fields, that
\* hold at most n person and note elements.
RECURSIVE PersonSeqs(_)
PersonSeqs(n) ==
  IF n = 0 THEN {<<>>}
  ELSE {<<>>} \cup
       UNION {UNION {{<<Elem("person", None, f \o ns)>> \o rest :
                        f \in PersonFields, rest \in PersonSeqs(n - 1 - k)} :
                     ns \in [1..k -> NoteElems]} : k \in 0..(n - 1)}

RECURSIVE NodeCount(_)
NodeCount(persons) ==
  IF persons = <<>> THEN 0
  ELSE 1 + Len(findall(Head(persons), "note")) + NodeCount(Tail(persons))

\* The files of at most n person and note elements: the persons, then the
\* top-level notes.
Docs(n) ==
  UNION {{Elem("pfif", None, ps \o ns) :
            ns \in SeqsUpTo(NoteElems, n - NodeCount(ps))} :
         ps \in PersonSeqs(n)}

\* Tree surgery on a file.
RECURSIVE ElemAt(_, _)
ElemAt(e, path) ==
  IF path = <<>> THEN e ELSE ElemAt(e.children[Head(path)], Tail(path))

Splice(s, i, repl) == SubSeq(s, 1, i - 1) \o repl \o SubSeq(s, i + 1, Len(s))

InsertAt(s, k, x) == SubSeq(s, 1, k - 1) \o <<x>> \o SubSeq(s, k, Len(s))

\* e with the element at path replaced by the elements of repl.
RECURSIVE ReplaceAt(_, _, _)
ReplaceAt(e, path, repl) ==
  LET i == Head(path)
  IN  IF Len(path) = 1
      THEN [e EXCEPT !.children = Splice(e.children, i, repl)]
      ELSE [e EXCEPT !.children =
              Splice(e.children, i,
                     <<ReplaceAt(e.children[i], Tail(path), repl)>>)]

IsField(e) == e.tag \notin {"person", "note"}

\* The paths of the fields right under the element at path.
FieldsUnder(doc, path) ==
  {path \o <<j>> : j \in {j \in DOMAIN ElemAt(doc, path).children :
                            IsField(ElemAt(doc, path).children[j])}}

\* The paths of the person and note elements right under the element at path.
NodesUnder(doc, path) ==
  {path \o <<j>> : j \in {j \in DOMAIN ElemAt(doc, path).children :
                            ~IsField(ElemAt(doc, path).children[j])}}

\* The paths of the fields of a file's persons, of its top-level notes and
\* of the notes under its persons.
FieldPaths(doc) ==
  UNION {FieldsUnder(doc, p) \cup
         UNION {FieldsUnder(doc, q) : q \in NodesUnder(doc, p)} :
         p \in NodesUnder(doc, <<>>)}

NoEdit == [kind |-> "none", side |-> "none", path |-> <<>>, to |-> 0]

----------------------------------------------------------------------------
(* pfif_file_diff on a file and a copy of it that was edited *)

InitCall ==
  /\ ignore_fields = {}
  /\ omit_blank_fields = FALSE
  /\ text_is_case_sensitive = TRUE
  /\ records_a = None
  /\ records_b = None
  /\ messages = None
  /\ messages_swapped = None

TypeFiles(docs) ==
  /\ file_a \in docs
  /\ file_b = file_a
  /\ edit = NoEdit
  /\ pc = "input"

Init == TypeFiles(Docs(MaxNodes)) /\ InitCall

InitEdit == TypeFiles(Docs(MaxEditNodes)) /\ InitCall

SetFile(side, doc) ==
  /\ file_a' = IF side = "a" THEN doc ELSE file_a
  /\ file_b' = IF side = "b" THEN doc ELSE file_b

\* One file gets a note that is a child of a person, and has no
\* person_record_id of its own, moved to the top level, where it carries
\* the person_record_id of that person.
MoveNote(side) ==
  /\ pc = "input"
  /\ edit = NoEdit
  /\ \E p \in NodesUnder(file_a, <<>>) :
       \E q \in NodesUnder(file_a, p) :
         LET person == ElemAt(file_a, p)
             note == ElemAt(file_a, q)
             P == get_field_text(person, "person_record_id")
         IN  /\ person.tag = "person"
             /\ note.tag = "note"
             /\ find(note, "person_record_id") = None
             /\ P # None
             /\ \E k \in 1..(Len(file_a.children) + 1),
                   pos \in 1..(Len(note.children) + 1) :
                  LET top == [note EXCEPT !.children =
                                InsertAt(note.children, pos,
                                         Elem("person_record_id", P, <<>>))]
                      rest == ReplaceAt(file_a, q, <<>>)
                  IN  /\ SetFile(side, [rest EXCEPT !.children =
                                          InsertAt(rest.children, k, top)])
                      /\ edit' = [kind |-> "move", side |-> side,
                                  path |-> q, to |-> k]
  /\ UNCHANGED <<ignore_fields, omit_blank_fields, text_is_case_sensitive,
                 records_a, records_b, messages, messages_swapped, pc>>

\* One file loses a field.
RemoveField(side) ==
  /\ pc = "input"
  /\ edit = NoEdit
  /\ \E q \in FieldPaths(file_a) :
       /\ SetFile(side, ReplaceAt(file_a, q, <<>>))
       /\ edit' = [kind |-> "remove", side |-> side, path |-> q, to |-> 0]
  /\ UNCHANGED <<ignore_fields, omit_blank_fields, text_is_case_sensitive,
                 records_a, records_b, messages, messages_swapped, pc>>

FieldTexts == {None} \cup {Some(i) : i \in Ids} \cup {Some(<<"J">>)}

\* One file gets another text in a field.
SetText(side) ==
  /\ pc = "input"
  /\ edit = NoEdit
  /\ \E q \in FieldPaths(file_a), t \in FieldTexts :
       /\ t # ElemAt(file_a, q).text
       /\ SetFile(side, ReplaceAt(file_a, q,
                                  <<[ElemAt(file_a, q) EXCEPT !.text = t]>>))
       /\ edit' = [kind |-> "text", side |-> side, path |-> q, to |-> 0]
  /\ UNCHANGED <<ignore_fields, omit_blank_fields, text_is_case_sensitive,
                 records_a, records_b, messages, messages_swapped, pc>>

\* Lines 192-200: pfif_file_diff(file_a, file_b, text_is_case_sensitive,
\* ignore_fields, omit_blank_fields), with the maps it builds on the way.
FileDiff ==
  /\ pc = "input"
  /\ \E ignore \in IgnoreSets, omit_blank \in BOOLEAN,
        case_sensitive \in BOOLEAN :
       /\ ignore_fields' = ignore
       /\ omit_blank_fields' = omit_blank
       /\ text_is_case_sensitive' = case_sensitive
       /\ records_a' = objectify_pfif_xml(file_a, ignore, omit_blank)
       /\ records_b' = objectify_pfif_xml(file_b, ignore, omit_blank)
       /\ messages' = pfif_obj_diff(records_a', records_b', case_sensitive)
  /\ pc' = "done"
  /\ UNCHANGED <<file_a, file_b, edit, messages_swapped>>

MoveNoteA == MoveNote("a")
MoveNoteB == MoveNote("b")
RemoveFieldA == RemoveField("a")
RemoveFieldB == RemoveField("b")
SetTextA == SetText("a")
SetTextB == SetText("b")

Next == MoveNoteA \/ MoveNoteB \/ FileDiff

Spec == Init /\ [][Next]_vars

NextEdit == RemoveFieldA \/ RemoveFieldB \/ SetTextA \/ SetTextB \/ FileDiff

SpecEdit == InitEdit /\ [][NextEdit]_vars

----------------------------------------------------------------------------
(* pfif_obj_diff on two maps, in both argument orders *)

DiffKeys == {<<"p", "1">>, <<"p", "2">>, <<"n", "1">>}

DiffValues == {<<"a">>, <<"A">>, <<"b">>}

\* A field map: an optional full_name and an optional sex.
FieldMaps ==
  {[f \in S |-> IF f = "full_name" THEN v ELSE <<"f">>] :
     S \in SUBSET {"full_name", "sex"}, v \in DiffValues}

RecordMaps ==
  UNION {[K -> FieldMaps] :
         K \in {K \in SUBSET DiffKeys : Cardinality(K) <= MaxRecords}}

InitDiff ==
  /\ file_a = None
  /\ file_b = None
  /\ edit = NoEdit
  /\ ignore_fields = {}
  /\ omit_blank_fields = FALSE
  /\ text_is_case_sensitive \in BOOLEAN
  /\ records_a \in RecordMaps
  /\ records_b \in RecordMaps
  /\ messages = None
  /\ messages_swapped = None
  /\ pc = "input"

\* Lines 151-190: pfif_obj_diff(records_a, records_b, ...)
ObjDiff ==
  /\ pc = "input"
  /\ messages' = pfif_obj_diff(records_a, records_b, text_is_case_sensitive)
  /\ pc' = "diffed"
  /\ UNCHANGED <<file_a, file_b, edit, ignore_fields, omit_blank_fields,
                 text_is_case_sensitive, records_a, records_b,
                 messages_swapped>>

\* Lines 151-190: pfif_obj_diff(records_b, records_a, ...)
ObjDiffSwapped ==
  /\ pc = "diffed"
  /\ messages_swapped' =
       pfif_obj_diff(records_b, records_a, text_is_case_sensitive)
  /\ pc' = "done"
  /\ UNCHANGED <<file_a, file_b, edit, ignore_fields, omit_blank_fields,
                 text_is_case_sensitive, records_a, records_b, messages>>

NextDiff == ObjDiff \/ ObjDiffSwapped

SpecDiff == InitDiff /\ [][NextDiff]_vars

----------------------------------------------------------------------------
(* What a file holds, read off the tree without objectify_parents *)

RECURSIVE NoteEntries(_, _)
NoteEntries(notes, parent) ==
  IF notes = <<>> THEN <<>>
  ELSE <<[elem |-> Head(notes), is_person |-> FALSE, parent |-> parent]>>
       \o NoteEntries(Tail(notes), parent)

RECURSIVE PersonEntries(_)
PersonEntries(persons) ==
  IF persons = <<>> THEN <<>>
  ELSE <<[elem |-> Head(persons), is_person |-> TRUE, parent |-> None]>>
       \o NoteEntries(findall(Head(persons), "note"), Some(Head(persons)))
       \o PersonEntries(Tail(persons))

\* Every person and note element of a file with the person it is a child
\* of, in the order of processing: each person, the notes under it, and
\* after all persons the top-level notes.
Entries(doc) ==
  PersonEntries(findall(doc, "person")) \o NoteEntries(findall(doc, "note"), None)

Range(s) == {s[i] : i \in DOMAIN s}

OwnId(e) ==
  get_field_text(e.elem,
                 IF e.is_person THEN "person_record_id" ELSE "note_record_id")

Nested(e) == e.parent # None

ParentId(e) == get_field_text(e.parent[1], "person_record_id")

\* The element has its identifier and, under a person, that person has its.
Processed(e) == OwnId(e) # None /\ (Nested(e) => ParentId(e) # None)

KeyOf(e) == (IF e.is_person THEN <<"p">> ELSE <<"n">>) \o OwnId(e)[1]

\* The processed elements of doc that produce key k, as indices of Entries.
WithKey(doc, k) ==
  {i \in DOMAIN Entries(doc) :
     Processed(Entries(doc)[i]) /\ KeyOf(Entries(doc)[i]) = k}

Keys(doc) ==
  {KeyOf(Entries(doc)[i]) :
     i \in {i \in DOMAIN Entries(doc) : Processed(Entries(doc)[i])}}

Blank(c) == c.text = None \/ c.text = Some(EmptyStr)

TextOf(c) == IF Blank(c) THEN EmptyStr ELSE c.text[1]

ChildrenTagged(e, f) ==
  {i \in DOMAIN e.elem.children : e.elem.children[i].tag = f}

\* The children of an element that reach its record: not ignored, not the
\* notes of a person, not blank when blank fields are omitted.
StoredChildren(e, f, ignore, omit_blank) ==
  {i \in ChildrenTagged(e, f) :
     /\ f \notin ignore
     /\ ~(e.is_person /\ f = "note")
     /\ ~(omit_blank /\ Blank(e.elem.children[i]))}

Injected(e, ignore) ==
  ~e.is_person /\ Nested(e) /\ "person_record_id" \notin ignore

AllTags(e) == {e.elem.children[i].tag : i \in DOMAIN e.elem.children}

StoredTags(e, ignore, omit_blank) ==
  {f \in AllTags(e) : StoredChildren(e, f, ignore, omit_blank) # {}}
  \cup (IF Injected(e, ignore) THEN {"person_record_id"} ELSE {})

MaxOf(S) == CHOOSE x \in S : \A y \in S : y <= x

\* The text the element leaves under f: that of its last stored child f,
\* else the identifier of the person it is under.
StoredValue(e, f, ignore, omit_blank) ==
  IF StoredChildren(e, f, ignore, omit_blank) # {}
  THEN TextOf(e.elem.children[MaxOf(StoredChildren(e, f, ignore, omit_blank))])
  ELSE ParentId(e)[1]

\* The record key a message is about.
MsgKey(m) ==
  IF m.person_record_id # None THEN <<"p">> \o m.person_record_id[1]
  ELSE <<"n">> \o m.note_record_id[1]

\* The messages of msgs about record k with category c.
RecordMsgs(msgs, k, c) ==
  {i \in DOMAIN msgs : MsgKey(msgs[i]) = k /\ msgs[i].category = c}

\* The messages of msgs about record k that name a field.
FieldMsgs(msgs, k) ==
  {i \in DOMAIN msgs : MsgKey(msgs[i]) = k /\ msgs[i].xml_tag # None}

\* The messages of msgs about field f of record k.
MsgsFor(msgs, k, f) ==
  {i \in DOMAIN msgs : MsgKey(msgs[i]) = k /\ msgs[i].xml_tag = Some(f)}

Done == pc = "done"

\* messages is set.
Diffed == pc \in {"diffed", "done"}

----------------------------------------------------------------------------
(* pfif_obj_diff: claims C2-C5, under SpecDiff *)

\* C2: pfif_obj_diff of a record map and itself returns no message, in
\* either argument order, whether or not text is case sensitive and also
\* when a record has an empty field map.
C2_SelfDiffEmpty ==
  (Done /\ records_a = records_b) =>
    (messages = <<>> /\ messages_swapped = <<>>)

C2_Witness ==
  /\ Done
  /\ records_a = records_b
  /\ ~text_is_case_sensitive
  /\ \E k \in DOMAIN records_a : records_a[k] = EmptyDict
  /\ \E k \in DOMAIN records_a :
       "full_name" \in DOMAIN records_a[k] /\ records_a[k]["full_name"] = <<"A">>

\* C3: a record key of records_a that records_b lacks gets exactly one
\* DELETED_RECORD message and no message naming a field; a record key of
\* records_b that records_a lacks gets exactly one ADDED_RECORD message and
\* no message naming a field; a key of both maps gets neither a
\* DELETED_RECORD nor an ADDED_RECORD message.
C3_RecordMessages ==
  Diffed =>
    /\ \A k \in (DOMAIN records_a) \ (DOMAIN records_b) :
         /\ Cardinality(RecordMsgs(messages, k, DELETED_RECORD)) = 1
         /\ FieldMsgs(messages, k) = {}
    /\ \A k \in (DOMAIN records_b) \ (DOMAIN records_a) :
         /\ Cardinality(RecordMsgs(messages, k, ADDED_RECORD)) = 1
         /\ FieldMsgs(messages, k) = {}
    /\ \A k \in (DOMAIN records_a) \cap (DOMAIN records_b) :
         /\ RecordMsgs(messages, k, DELETED_RECORD) = {}
         /\ RecordMsgs(messages, k, ADDED_RECORD) = {}

C3_Witness ==
  /\ Done
  /\ \E k \in (DOMAIN records_a) \ (DOMAIN records_b) :
       records_a[k] # EmptyDict
  /\ \E k \in (DOMAIN records_b) \ (DOMAIN records_a) :
       records_b[k] # EmptyDict
  /\ \E k \in (DOMAIN records_a) \cap (DOMAIN records_b) :
       FieldMsgs(messages, k) # {}

\* The texts a CHANGED_FIELD message can quote.
QuotedValues == DiffValues \cup {Lower(v) : v \in DiffValues}

\* C4: swapping the arguments mirrors the result: DELETED_RECORD(k) is in
\* pfif_obj_diff(A, B) exactly when ADDED_RECORD(k) is in
\* pfif_obj_diff(B, A), and CHANGED_FIELD(k, f, 'A:"x" is now B:"y"') is in
\* pfif_obj_diff(A, B) exactly when CHANGED_FIELD(k, f, 'A:"y" is now
\* B:"x"') is in pfif_obj_diff(B, A), whether or not text is case sensitive.
C4_SwapMirrors ==
  Done =>
    /\ \A k \in DiffKeys :
         (make_diff_message(DELETED_RECORD, k, None, None) \in Range(messages))
         <=> (make_diff_message(ADDED_RECORD, k, None, None)
                \in Range(messages_swapped))
    /\ \A k \in DiffKeys, f \in {"full_name", "sex"} :
         \A x \in QuotedValues, y \in QuotedValues :
           (make_diff_message(CHANGED_FIELD, k, Some(changed_text(x, y)),
                              Some(f)) \in Range(messages))
           <=> (make_diff_message(CHANGED_FIELD, k, Some(changed_text(y, x)),
                                  Some(f)) \in Range(messages_swapped))

C4_Witness ==
  /\ Done
  /\ ~text_is_case_sensitive
  /\ \E i \in DOMAIN messages : messages[i].category = DELETED_RECORD
  /\ \E i \in DOMAIN messages : messages[i].category = ADDED_RECORD
  /\ \E i \in DOMAIN messages :
       /\ messages[i].category = CHANGED_FIELD
       /\ records_a[MsgKey(messages[i])]["full_name"] = <<"A">>

\* C5: a CHANGED_FIELD message for field f of record k quotes the values
\* held in records_a and records_b, 'A:"<a>" is now B:"<b>"', as they are
\* stored, also when text is not case sensitive.
C5_QuotesStoredValues ==
  Diffed =>
    \A i \in DOMAIN messages :
      messages[i].category = CHANGED_FIELD =>
        LET k == MsgKey(messages[i])
            f == messages[i].xml_tag[1]
        IN  messages[i].extra_data =
              Some(changed_text(records_a[k][f], records_b[k][f]))

----------------------------------------------------------------------------
(* objectify_pfif_xml on one file: claims C8-C10, under Spec *)

EntriesA == Entries(file_a)

\* The last processed element of file_a that produces key k.
LastWithKey(k) == EntriesA[MaxOf(WithKey(file_a, k))]

\* The last processed element of file_a that produces key k and leaves a
\* text under f.
LastStoring(k, f) ==
  EntriesA[MaxOf({i \in WithKey(file_a, k) :
                    f \in StoredTags(EntriesA[i], ignore_fields,
                                     omit_blank_fields)})]

\* The notes of file_a under a person that has its identifier, that have
\* their own identifier and share their key with no other element.
LoneNestedNotes ==
  {i \in DOMAIN EntriesA :
     /\ Nested(EntriesA[i])
     /\ Processed(EntriesA[i])
     /\ WithKey(file_a, KeyOf(EntriesA[i])) = {i}}

\* C8 as claimed: the record of a note under a person with identifier P has
\* person_record_id P whatever the note's own children, when
\* person_record_id is not ignored.  (Stated for the notes that share their
\* key with no other element.)
C8_AlwaysParentId ==
  (Done /\ "person_record_id" \notin ignore_fields) =>
    \A i \in LoneNestedNotes :
      records_a[KeyOf(EntriesA[i])]["person_record_id"]
        = ParentId(EntriesA[i])[1]

\* C8 as amended: the record of a note under a person with identifier P has
\* the text of the note's own last person_record_id child when the note has
\* one that is stored (not blank, or blank while blank fields are kept),
\* and P otherwise; when person_record_id is not ignored and no element
\* processed later with the same key leaves a person_record_id.
C8_ParentIdUnlessOwn ==
  (Done /\ "person_record_id" \notin ignore_fields) =>
    \A i \in DOMAIN EntriesA :
      LET e == EntriesA[i]
          own == StoredChildren(e, "person_record_id", ignore_fields,
                                omit_blank_fields)
      IN  (/\ Nested(e)
           /\ Processed(e)
           /\ LastStoring(KeyOf(e), "person_record_id") = e
           /\ MaxOf({j \in WithKey(file_a, KeyOf(e)) :
                       "person_record_id" \in
                         StoredTags(EntriesA[j], ignore_fields,
                                    omit_blank_fields)}) = i)
          => /\ KeyOf(e) \in DOMAIN records_a
             /\ "person_record_id" \in DOMAIN records_a[KeyOf(e)]
             /\ records_a[KeyOf(e)]["person_record_id"] =
                  IF own = {} THEN ParentId(e)[1]
                  ELSE TextOf(e.elem.children[MaxOf(own)])

\* A note under a person without a person_record_id of its own, one with a
\* blank one that is omitted, and so its record holds the person's id.
C8_Witness ==
  /\ Done
  /\ "person_record_id" \notin ignore_fields
  /\ omit_blank_fields
  /\ \E i \in LoneNestedNotes :
       /\ ChildrenTagged(EntriesA[i], "person_record_id") # {}
       /\ StoredChildren(EntriesA[i], "person_record_id", ignore_fields,
                         omit_blank_fields) = {}
       /\ records_a[KeyOf(EntriesA[i])]["person_record_id"]
            = ParentId(EntriesA[i])[1]

\* The keys of file_a that two or more processed elements produce.
SharedKeys == {k \in Keys(file_a) : Cardinality(WithKey(file_a, k)) >= 2}

\* C9 as claimed: when several elements produce one key, the field map
\* under that key holds exactly the fields of the last one processed.
C9_LastWriteWins ==
  Done =>
    \A k \in SharedKeys :
      /\ DOMAIN records_a[k] =
           StoredTags(LastWithKey(k), ignore_fields, omit_blank_fields)
      /\ \A f \in DOMAIN records_a[k] :
           records_a[k][f] =
             StoredValue(LastWithKey(k), f, ignore_fields, omit_blank_fields)

\* C9 as amended: when several elements produce one key, the field map under
\* that key holds the fields of all of them, and under each field the text
\* left by the last processed element that leaves that field.
C9_FieldsMerge ==
  Done =>
    \A k \in SharedKeys :
      /\ k \in DOMAIN records_a
      /\ DOMAIN records_a[k] =
           UNION {StoredTags(EntriesA[i], ignore_fields, omit_blank_fields) :
                  i \in WithKey(file_a, k)}
      /\ \A f \in DOMAIN records_a[k] :
           records_a[k][f] =
             StoredValue(LastStoring(k, f), f, ignore_fields,
                         omit_blank_fields)

\* Two elements with one key; the earlier leaves a field the later does
\* not, and the record still holds it.
C9_Witness ==
  /\ Done
  /\ \E k \in SharedKeys :
       \E i \in WithKey(file_a, k) :
         LET last == LastWithKey(k)
             mine == StoredTags(EntriesA[i], ignore_fields, omit_blank_fields)
             his == StoredTags(last, ignore_fields, omit_blank_fields)
         IN  /\ EntriesA[i] # last
             /\ mine \ his # {}
             /\ (mine \ his) \subseteq DOMAIN records_a[k]

\* C10: an element without its identifier adds no record and does not stop
\* the pass: the map holds a record for exactly the keys of the elements
\* that have their identifier and are not under a person without one, and
\* each such record holds the fields its element leaves.
C10_DefectSkipped ==
  Done =>
    /\ DOMAIN records_a = Keys(file_a)
    /\ \A i \in DOMAIN EntriesA :
         Processed(EntriesA[i]) =>
           StoredTags(EntriesA[i], ignore_fields, omit_blank_fields)
             \subseteq DOMAIN records_a[KeyOf(EntriesA[i])]

\* A person without identifier, with a note under it that has one, is
\* followed by a person that has its identifier; the note has no record,
\* the later person has.
C10_Witness ==
  /\ Done
  /\ \E i \in DOMAIN EntriesA, j \in DOMAIN EntriesA :
       /\ i < j
       /\ EntriesA[i].is_person /\ OwnId(EntriesA[i]) = None
       /\ Nested(EntriesA[i + 1]) /\ OwnId(EntriesA[i + 1]) # None
       /\ KeyOf(EntriesA[i + 1]) \notin DOMAIN records_a
       /\ EntriesA[j].is_person /\ OwnId(EntriesA[j]) # None
       /\ KeyOf(EntriesA[j]) \in DOMAIN records_a

----------------------------------------------------------------------------
(* A note moved from under its person to the top level: claim C1, under   *)
(* Spec                                                                    *)

Moved == Done /\ edit.kind = "move"

\* The file the note was moved in, as it was.
MoveOrig == IF edit.side = "a" THEN file_b ELSE file_a

\* The note that was moved, as it was under its person.
MovedNote == ElemAt(MoveOrig, edit.path)

MovedNoteId == get_field_text(MovedNote, "note_record_id")

\* No other processed element of the file produces the key of the moved
\* note.
MovedNoteAlone ==
  MovedNoteId # None =>
    Cardinality(WithKey(MoveOrig, <<"n">> \o MovedNoteId[1])) = 1

\* C1 as claimed: a file and the file with one note moved from under its
\* person (the note has no person_record_id of its own) to the top level
\* (where it carries the person's identifier) give the same record map,
\* under every ignore_fields and omit_blank_fields, so that pfif_obj_diff of
\* the two maps, in either order, returns no message.
C1_MoveSameMap ==
  Moved => (records_a = records_b /\ messages = <<>>)

\* C1 as amended: the same, provided no other note of the file that gets a
\* record has the note_record_id of the moved note.
C1_MoveSameMapLoneKey ==
  (Moved /\ MovedNoteAlone) => (records_a = records_b /\ messages = <<>>)

\* A note with an identifier of its own was moved to the top level of
\* file_b, person_record_id not being ignored; the file holds another note
\* with a record, and the moved note's record holds the person's id.
C1_Witness ==
  /\ Moved
  /\ edit.side = "b"
  /\ MovedNoteAlone
  /\ MovedNoteId # None
  /\ "person_record_id" \notin ignore_fields
  /\ LET k == <<"n">> \o MovedNoteId[1]
     IN  /\ k \in DOMAIN records_b
         /\ "person_record_id" \in DOMAIN records_b[k]
         /\ \E k2 \in DOMAIN records_b : k2 # k /\ ~is_key_person(k2)

----------------------------------------------------------------------------
(* pfif_file_diff on a file and the file with one field edited: claims C6 *)
(* and C7, under SpecEdit                                                  *)

\* C6: no message names a field of ignore_fields.
C6_IgnoredNeverNamed ==
  Done =>
    \A i \in DOMAIN messages :
      messages[i].xml_tag = None \/ messages[i].xml_tag[1] \notin ignore_fields

\* The field that was edited, as it was.
EditedField == ElemAt(IF edit.side = "a" THEN file_b ELSE file_a, edit.path)

\* The person_record_id of a note under a person was removed in one file,
\* so that one file has the note's own and the other the person's; only
\* person_record_id is ignored, and there is no message.
C6_Witness ==
  /\ Done
  /\ edit.kind = "remove"
  /\ Len(edit.path) = 3
  /\ EditedField.tag = "person_record_id"
  /\ ~Blank(EditedField)
  /\ ignore_fields = {"person_record_id"}
  /\ records_a # EmptyDict
  /\ messages = <<>>

\* The one processed element of doc that produces key k.
TheEntry(doc, k) == Entries(doc)[CHOOSE i \in WithKey(doc, k) : TRUE]

\* Record k comes from one element in each file, f is not ignored, and the
\* element of file_a has one child f, which is blank.
BlankInA(k, f) ==
  /\ k \in DOMAIN records_a
  /\ k \in DOMAIN records_b
  /\ Cardinality(WithKey(file_a, k)) = 1
  /\ Cardinality(WithKey(file_b, k)) = 1
  /\ f \notin ignore_fields
  /\ Cardinality(ChildrenTagged(TheEntry(file_a, k), f)) = 1
  /\ \A i \in ChildrenTagged(TheEntry(file_a, k), f) :
       Blank(TheEntry(file_a, k).elem.children[i])

\* The element of file_b for record k has no child f.
AbsentInB(k, f) == ChildrenTagged(TheEntry(file_b, k), f) = {}

\* The element of file_b for record k has one child f, which is not blank.
TextInB(k, f) ==
  /\ Cardinality(ChildrenTagged(TheEntry(file_b, k), f)) = 1
  /\ \A i \in ChildrenTagged(TheEntry(file_b, k), f) :
       ~Blank(TheEntry(file_b, k).elem.children[i])

\* Exactly one message about field f of record k, of category c.
OneMessage(k, f, c) ==
  /\ Cardinality(MsgsFor(messages, k, f)) = 1
  /\ \A i \in MsgsFor(messages, k, f) : messages[i].category = c

\* f is the person_record_id of a note that is under a person in a file.
UnderPerson(k, f) ==
  /\ f = "person_record_id"
  /\ Nested(TheEntry(file_a, k)) \/ Nested(TheEntry(file_b, k))

\* C7 as claimed: for a record of both files with f blank in file_a and
\* absent in file_b, there is no message about f when blank fields are
\* omitted and exactly one, a DELETED_FIELD, when they are kept; and when
\* file_b has a text in f and blank fields are kept there is exactly one, a
\* CHANGED_FIELD.  (Stated for f not ignored.)
C7_BlankAgainstAbsent ==
  Done =>
    \A k \in DOMAIN records_a, f \in Tags :
      BlankInA(k, f) =>
        /\ AbsentInB(k, f) =>
             IF omit_blank_fields THEN MsgsFor(messages, k, f) = {}
             ELSE OneMessage(k, f, DELETED_FIELD)
        /\ (TextInB(k, f) /\ ~omit_blank_fields) =>
             OneMessage(k, f, CHANGED_FIELD)

\* C7 as amended: the same, except that the part about f absent in file_b
\* leaves out the person_record_id of a note that is under a person in
\* either file.
C7_BlankAgainstAbsentTopLevel ==
  Done =>
    \A k \in DOMAIN records_a, f \in Tags :
      BlankInA(k, f) =>
        /\ (AbsentInB(k, f) /\ ~UnderPerson(k, f)) =>
             IF omit_blank_fields THEN MsgsFor(messages, k, f) = {}
             ELSE OneMessage(k, f, DELETED_FIELD)
        /\ (TextInB(k, f) /\ ~omit_blank_fields) =>
             OneMessage(k, f, CHANGED_FIELD)

\* A blank field of file_a was removed in file_b; blank fields are kept and
\* the one message about it is a DELETED_FIELD.
C7_Witness ==
  /\ Done
  /\ edit.kind = "remove"
  /\ edit.side = "b"
  /\ ~omit_blank_fields
  /\ \E k \in DOMAIN records_a, f \in Tags :
       /\ BlankInA(k, f)
       /\ AbsentInB(k, f)
       /\ ~UnderPerson(k, f)
       /\ OneMessage(k, f, DELETED_FIELD)

====
